---- MODULE Spec2Model ----
(***************************************************************************)
(* Model of the code of the repository:                                    *)
(*   - the client calculator, src/TaxCalculator.jsx (React component       *)
(*     TaxCalculator: form state, calculateTax and the calculate*          *)
(*     functions it dispatches to);                                        *)
(*   - the tax-calculation edge function, src/unnamed/part_010 lines       *)
(*     167-286 (request validation, Malta bracket loop, result, insert     *)
(*     into tax_calculations), called once (Spec) or several times         *)
(*     (SpecCalls);                                                        *)
(*   - the persona lists in localStorage, src/unnamed/part_007             *)
(*     (PersonaSelector) and src/JurisdictionCloner.jsx                    *)
(*     (saveClonedConfiguration) (SpecPersonas);                           *)
(*   - the bracket tables of the jurisdictions seed, src/unnamed/part_006; *)
(*   - the calculator with its type buttons and form edits (SpecTypes);    *)
(*   - the service worker, src/unnamed/part_000: the fetch handler         *)
(*     (SpecWorker) and the background sync (SpecSync);                    *)
(*   - the tables conversations and messages, src/unnamed/part_009, with   *)
(*     the row level security of src/unnamed/part_003 (SpecRls) and the    *)
(*     chat handler, src/unnamed/part_010 lines 1-166 (SpecChat);          *)
(*   - the steps of the jurisdiction cloner, src/JurisdictionCloner.jsx    *)
(*     (SpecCloner);                                                       *)
(*   - the onboarding wizard, src/unnamed/part_003 (SpecWizard).           *)
(* Each specification moves the variables of its component and leaves the *)
(* others in their initial state.                                          *)
(*                                                                         *)
(* Numbers.  JavaScript numbers are modelled as exact reals (IEEE rounding *)
(* error is not modelled), carried as integers over a stated denominator:  *)
(*   - an amount of money typed into a form or sent in a request is an     *)
(*     integer count of 1/Scale euro ("units");                            *)
(*   - a quotient such as income / parts is a fraction [n, d], d >= 0;     *)
(*     d = 0 carries the IEEE results of a division by zero:               *)
(*     n > 0 is +Infinity, n < 0 is -Infinity, n = 0 is NaN;               *)
(*   - each result field states its own denominator where it is built.     *)
(***************************************************************************)
EXTENDS Integers, Sequences, FiniteSets, TLC

VARIABLES
    jurisdiction,      \* prop `jurisdiction` of TaxCalculator
    calculationType,   \* useState('income')
    formData,          \* useState({...}) : the form fields, as typed
    results,           \* useState(null)
    isCalculating,     \* useState(false)
    closure,           \* what a pending calculateTax call closed over
    request,           \* edge function: the HTTP request received
    response,          \* edge function: the HTTP response sent
    tax_calculations,  \* edge function: number of rows inserted
    queue,             \* edge function: requests still on their way
    served,            \* edge function: the calls answered before `request`
    now,               \* edge function: the clock new Date() reads
    storage,           \* localStorage: the item personas-<jur>-<lang>
    selector,          \* PersonaSelector of each tab: mounted, personas
    created,           \* custom personas created so far
    cloningHistory,    \* localStorage: entries of jurisdiction-cloning-history
    written,           \* history: ids written to the item, not deleted since
    staticCached,      \* service worker: STATIC_CACHE holds STATIC_FILES
    dynamicCache,      \* service worker: DYNAMIC_CACHE, status cached per URL
    delivered,         \* service worker: the last response handed to a page
    offlineActions,    \* service worker: the IndexedDB store `actions`
    syncRun,           \* service worker: the actions a running sync has left
    attempted,         \* history: the actions attempted by syncs, and how
    messages,          \* database: the rows of public.messages, oldest first
    conversations,     \* database: user_id and message_count per conversation
    chatResponse,      \* chat handler: the last response sent
    selectedTargetJurisdiction,  \* JurisdictionCloner: useState('')
    selectedTargetLanguage,      \* JurisdictionCloner: useState('')
    cloningStep,       \* JurisdictionCloner: select, configure, clone, complete
    personaProp,       \* JurisdictionCloner: the prop `persona` is given
    clonedItems,       \* localStorage: the keys whose item holds the clone
    currentStep,       \* OnboardingWizard: useState(0)
    wizardForm,        \* OnboardingWizard: its formData
    showDemo,          \* OnboardingWizard: useState(false)
    onboarded          \* OnboardingWizard: onComplete has been called

vars == <<jurisdiction, calculationType, formData, results, isCalculating,
          closure, request, response, tax_calculations, queue, served, now,
          storage, selector, created, cloningHistory, written,
          staticCached, dynamicCache, delivered, offlineActions, syncRun,
          attempted, messages, conversations, chatResponse,
          selectedTargetJurisdiction, selectedTargetLanguage, cloningStep,
          personaProp, clonedItems, currentStep, wizardForm, showDemo,
          onboarded>>

\* the variables of the calculator and of the edge function
calcVars == <<jurisdiction, calculationType, formData, results,
              isCalculating, closure, request, response, tax_calculations,
              queue, served, now>>

\* the variables of the persona lists
personaVars == <<storage, selector, created, cloningHistory, written>>

\* the variables of the service worker
workerVars == <<staticCached, dynamicCache, delivered, offlineActions,
                syncRun, attempted>>

\* the variables of the database behind the chat handler
dbVars == <<messages, conversations, chatResponse>>

\* the variables of the jurisdiction cloner
clonerVars == <<selectedTargetJurisdiction, selectedTargetLanguage,
                cloningStep, personaProp, clonedItems>>

\* the variables of the onboarding wizard
wizardVars == <<currentStep, wizardForm, showDemo, onboarded>>

\* the variables of the other components, for the calculator, the edge
\* function and the persona lists
extVars == <<workerVars, dbVars, clonerVars, wizardVars>>

\* the variables of everything but the service worker
nonWorkerVars == <<calcVars, personaVars, dbVars, clonerVars, wizardVars>>

\* the variables of everything but the database
nonDbVars == <<calcVars, personaVars, workerVars, clonerVars, wizardVars>>

\* the variables of everything but the cloner and the persona lists
nonClonerVars == <<calcVars, workerVars, dbVars, wizardVars>>

\* the variables of everything but the onboarding wizard
nonWizardVars == <<calcVars, personaVars, workerVars, dbVars, clonerVars>>

----------------------------------------------------------------------------
(* Bounds of the model *)

\* units per euro: amounts are multiples of 1/Scale euro
Scale == 2
\* dependents typed into the form range over -NegDependents .. MaxDependents
NegDependents == 3
MaxDependents == 2
\* calls of the edge function in one behaviour, at most
MaxCalls == 3
\* target jurisdictions offered by the cloner
MaxTargets == 3
\* conversations in the database
NumConversations == 2
\* rows of messages inserted by sessions, at most
MaxRows == 2
\* rows of messages stored through the chat handler, at most
MaxChatRows == 22
\* browser tabs showing a PersonaSelector
NumTabs == 2
\* custom personas created in one behaviour, at most
MaxCustom == 1
\* runs of the jurisdiction cloner in one behaviour, at most
MaxClones == 2
\* offline actions queued before a background sync, at most
MaxActions == 2
\* attempts to sync an action in one behaviour, at most
MaxAttempts == 4

----------------------------------------------------------------------------
(* Numbers *)

\* JavaScript Infinity, as the upper edge of the last bracket
Infinity == 2147483647

\* .limit(20) of the chat handler's history query
HistoryLimit == 20

Min(a, b) == IF a <= b THEN a ELSE b
Max(a, b) == IF a >= b THEN a ELSE b
Abs(a) == IF a < 0 THEN -a ELSE a
Sign(a) == IF a < 0 THEN -1 ELSE IF a > 0 THEN 1 ELSE 0

\* truncation toward zero of a / b for b > 0
TruncDiv(a, b) == IF a >= 0 THEN a \div b ELSE -((-a) \div b)
\* Math.round(a / b) for b > 0: the nearest integer, halves toward +Infinity
RoundDiv(a, b) == (a \div b) + (IF 2 * (a % b) >= b THEN 1 ELSE 0)

\* a whole number of euros, in units
Euro(e) == e * Scale

\* the fraction n / d
Frac(n, d) == [n |-> n, d |-> d]
IsNaN(x) == x.d = 0 /\ x.n = 0
IsPosInf(x) == x.d = 0 /\ x.n > 0
IsNegInf(x) == x.d = 0 /\ x.n < 0
IsFinite(x) == x.d > 0

\* x / y for an amount x in units and a divisor p2 / 2 (parts, in halves)
DivideByParts(x, p2) ==
    IF p2 = 0 THEN Frac(Sign(x), 0)
    ELSE Frac(2 * x * Sign(p2), Abs(p2))

\* x > e for a fraction x of units and a bracket edge e in euros (or Infinity)
FracGT(x, e) ==
    IF x.d = 0 THEN x.n > 0 /\ e # Infinity
    ELSE e # Infinity /\ x.n > Euro(e) * x.d
\* x >= e
FracGE(x, e) ==
    IF x.d = 0 THEN x.n > 0
    ELSE e # Infinity /\ x.n >= Euro(e) * x.d
\* x <= e
FracLE(x, e) ==
    IF x.d = 0 THEN x.n < 0 \/ (x.n > 0 /\ e = Infinity)
    ELSE e = Infinity \/ x.n <= Euro(e) * x.d

RECURSIVE SumSeq(_)
SumSeq(s) == IF s = <<>> THEN 0 ELSE Head(s) + SumSeq(Tail(s))

----------------------------------------------------------------------------
(* Text of the form's number fields *)

\* the text of a number n (in units), and the empty text that an
\* <input type="number"> holds when nothing valid was typed
Txt(n) == [num |-> TRUE, v |-> n]
Empty == [num |-> FALSE, v |-> 0]

\* parseFloat(s) || 0 : NaN (from the empty text) and 0 both give 0
ParseFloatOr0(s) == IF s.num THEN s.v ELSE 0

\* parseInt(s) || 0 : the integer part, NaN and 0 give 0
ParseIntOr0(s) == IF s.num THEN TruncDiv(s.v, Scale) ELSE 0

----------------------------------------------------------------------------
(* Arithmetic on fractions *)

FracIsPositive(x) == x.n > 0

\* a + b
FracAdd(a, b) ==
    IF a.d = 0 \/ b.d = 0
    THEN IF IsNaN(a) \/ IsNaN(b) THEN Frac(0, 0)
         ELSE IF a.d = 0 /\ b.d = 0 /\ Sign(a.n) # Sign(b.n) THEN Frac(0, 0)
         ELSE IF a.d = 0 THEN Frac(Sign(a.n), 0)
         ELSE Frac(Sign(b.n), 0)
    ELSE IF a.d = b.d THEN Frac(a.n + b.n, a.d)
    ELSE Frac(a.n * b.d + b.n * a.d, a.d * b.d)

RECURSIVE FracSumSeq(_)
FracSumSeq(s) ==
    IF s = <<>> THEN Frac(0, 1)
    ELSE IF Len(s) = 1 THEN Head(s)
    ELSE FracAdd(Head(s), FracSumSeq(Tail(s)))

\* x * (rate / 100)
FracTimesRate(x, rate) ==
    IF x.d = 0 THEN Frac(Sign(x.n * rate), 0)
    ELSE Frac(x.n * rate, x.d * 100)

\* x * parts, parts = p2 / 2
FracTimesParts(x, p2) ==
    IF x.d = 0 THEN Frac(Sign(x.n * p2), 0)
    ELSE IF p2 # 0 /\ x.d % Abs(p2) = 0
         THEN Frac(x.n * Sign(p2), (x.d \div Abs(p2)) * 2)
    ELSE Frac(x.n * p2, x.d * 2)

\* a slip in the floor: x - e without Math.max(0, ...)
FracMax0Minus_NoFloor(x, e) == Frac(x.n - Euro(e) * x.d, x.d)

\* Math.max(0, x - e) for a whole number e of euros
FracMax0Minus(x, e) == Frac(Max(0, x.n - Euro(e) * x.d), x.d)

\* (x / income) * 100 for an amount income > 0 in units
FracPercentOf(x, income) ==
    IF x.d = 0 THEN Frac(Sign(x.n), 0)
    ELSE IF x.d % 100 = 0 THEN Frac(x.n, (x.d \div 100) * income)
    ELSE Frac(x.n * 100, x.d * income)

\* income - x for an amount income in units
FracFromAmountMinus(income, x) ==
    IF x.d = 0 THEN Frac(-Sign(x.n), 0)
    ELSE Frac(income * x.d - x.n, x.d)

----------------------------------------------------------------------------
(* src/TaxCalculator.jsx : the income tax calculators *)

\* brackets of calculateMaltaIncomeTax, edges in euros, rate in percent
MaltaBrackets ==
    << [min |-> 0,     max |-> 9100,     rate |-> 0],
       [min |-> 9101,  max |-> 14500,    rate |-> 15],
       [min |-> 14501, max |-> 19500,    rate |-> 25],
       [min |-> 19501, max |-> 60000,    rate |-> 25],
       [min |-> 60001, max |-> Infinity, rate |-> 35] >>

\* brackets of calculateFranceIncomeTax
FranceBrackets ==
    << [min |-> 0,      max |-> 10777,    rate |-> 0],
       [min |-> 10778,  max |-> 27478,    rate |-> 11],
       [min |-> 27479,  max |-> 78570,    rate |-> 30],
       [min |-> 78571,  max |-> 168994,   rate |-> 41],
       [min |-> 168995, max |-> Infinity, rate |-> 45] >>

\* if (income > bracket.min)
BracketEntered(x, bracket) == FracGT(x, bracket.min)

\* a slip in the width: Math.min(income, bracket.max) - bracket.min
TaxableInThisBracket_NoOffset(x, bracket) ==
    IF x.d = 0
    THEN IF bracket.max = Infinity THEN Frac(1, 0)
         ELSE Frac(Euro(bracket.max - bracket.min), 1)
    ELSE Frac((IF FracLE(x, bracket.max) THEN x.n ELSE Euro(bracket.max) * x.d)
              - Euro(bracket.min) * x.d, x.d)

\* Math.min(income, bracket.max) - bracket.min + 1
TaxableInThisBracket(x, bracket) ==
    IF x.d = 0
    THEN IF bracket.max = Infinity THEN Frac(1, 0)
         ELSE Frac(Euro(bracket.max - bracket.min + 1), 1)
    ELSE Frac((IF FracLE(x, bracket.max) THEN x.n ELSE Euro(bracket.max) * x.d)
              - Euro(bracket.min) * x.d + Euro(1) * x.d, x.d)

\* taxableInThisBracket * (bracket.rate / 100)
TaxForBracket(x, bracket) ==
    FracTimesRate(TaxableInThisBracket(x, bracket), bracket.rate)

\* the value of `tax` after the loop over the brackets: the sum of
\* taxForBracket over the brackets entered (0, over the denominator of the
\* others, for a bracket that is not)
BracketLoopTax(x, brackets) ==
    FracSumSeq([i \in 1..Len(brackets) |->
        IF BracketEntered(x, brackets[i])
        THEN TaxForBracket(x, brackets[i])
        ELSE Frac(0, IF x.d = 0 THEN 100 ELSE x.d * 100)])

\* the value of `breakdown` after the loop: one entry for each bracket
\* entered with taxableInThisBracket > 0; range is kept as the two edges
BracketLoopBreakdown(x, brackets) ==
    LET entry(i) == [min |-> brackets[i].min, max |-> brackets[i].max,
                     rate |-> brackets[i].rate,
                     taxableAmount |-> TaxableInThisBracket(x, brackets[i]),
                     tax |-> TaxForBracket(x, brackets[i])]
        all == [i \in 1..Len(brackets) |-> entry(i)]
        pushed(e) == /\ FracGT(x, e.min)
                     /\ FracIsPositive(e.taxableAmount)
    IN  SelectSeq(all, pushed)

\* getMarginalRate(income, brackets)
getMarginalRate(x, brackets) ==
    LET hit == {i \in 1..Len(brackets) :
                   FracGE(x, brackets[i].min) /\ FracLE(x, brackets[i].max)}
    IN  IF hit # {}
        THEN brackets[CHOOSE i \in hit : \A j \in hit : i <= j].rate
        ELSE brackets[Len(brackets)].rate

\* allowances of calculateMaltaIncomeTax, in euros
MaltaAllowances(isMarried, dependents) ==
    (IF isMarried THEN 600 ELSE 0) + dependents * 300

\* calculateMaltaIncomeTax(income, isMarried, dependents)
\*   totalTax, netIncome: fractions of units; effectiveRate: percent
calculateMaltaIncomeTax(income, isMarried, dependents) ==
    LET x == Frac(income, 1)
        tax == BracketLoopTax(x, MaltaBrackets)
        allowances == MaltaAllowances(isMarried, dependents)
        finalTax == FracMax0Minus(tax, allowances)
    IN  [kind |-> "income",
         grossIncome |-> income,
         totalTax |-> finalTax,
         netIncome |-> FracFromAmountMinus(income, finalTax),
         effectiveRate |-> IF income > 0 THEN FracPercentOf(finalTax, income)
                           ELSE Frac(0, 1),
         marginalRate |-> getMarginalRate(x, MaltaBrackets),
         allowances |-> allowances,
         quotientFamilial2 |-> 2,
         hasBreakdown |-> TRUE,
         breakdown |-> BracketLoopBreakdown(x, MaltaBrackets),
         jurisdiction |-> "Malta"]

\* a slip in the parts: the spouse counted as half a part
FranceParts2_SpouseHalf(isMarried, dependents) ==
    (IF isMarried THEN 3 ELSE 2) + dependents

\* quotient familial of calculateFranceIncomeTax, in halves of a part
FranceParts2(isMarried, dependents) ==
    (IF isMarried THEN 4 ELSE 2) + dependents

\* calculateFranceIncomeTax(income, isMarried, dependents)
calculateFranceIncomeTax(income, isMarried, dependents) ==
    LET parts2 == FranceParts2(isMarried, dependents)
        quotientIncome == DivideByParts(income, parts2)
        tax == BracketLoopTax(quotientIncome, FranceBrackets)
        finalTax == FracTimesParts(tax, parts2)
    IN  [kind |-> "income",
         grossIncome |-> income,
         totalTax |-> finalTax,
         netIncome |-> FracFromAmountMinus(income, finalTax),
         effectiveRate |-> IF income > 0 THEN FracPercentOf(finalTax, income)
                           ELSE Frac(0, 1),
         marginalRate |-> getMarginalRate(quotientIncome, FranceBrackets),
         allowances |-> 0,
         quotientFamilial2 |-> parts2,
         hasBreakdown |-> TRUE,
         breakdown |-> BracketLoopBreakdown(quotientIncome, FranceBrackets),
         jurisdiction |-> "France"]

\* a slip in the rate thresholds: the first two rates exchanged
GenericRate_Exchanged(income) ==
    IF income <= Euro(50000) THEN 30
    ELSE IF income <= Euro(100000) THEN 20 ELSE 40

\* income <= 50000 ? 20 : income <= 100000 ? 30 : 40
GenericRate(income) ==
    IF income <= Euro(50000) THEN 20
    ELSE IF income <= Euro(100000) THEN 30 ELSE 40

\* allowances of calculateGenericIncomeTax, in euros
GenericAllowances(isMarried, dependents) ==
    (IF isMarried THEN 2000 ELSE 1000) + dependents * 500

\* calculateGenericIncomeTax(income, isMarried, dependents)
calculateGenericIncomeTax(j, income, isMarried, dependents) ==
    LET rate == GenericRate(income)
        tax == FracTimesRate(Frac(income, 1), rate)
        allowances == GenericAllowances(isMarried, dependents)
        finalTax == FracMax0Minus(tax, allowances)
    IN  [kind |-> "income",
         grossIncome |-> income,
         totalTax |-> finalTax,
         netIncome |-> FracFromAmountMinus(income, finalTax),
         effectiveRate |-> IF income > 0 THEN FracPercentOf(finalTax, income)
                           ELSE Frac(0, 1),
         marginalRate |-> rate,
         allowances |-> allowances,
         quotientFamilial2 |-> 2,
         hasBreakdown |-> FALSE,
         breakdown |-> <<>>,
         jurisdiction |-> j]

\* calculateIncomeTax() : parses the form and picks the variant
calculateIncomeTax(j, fd) ==
    LET income == ParseFloatOr0(fd.income)
        dependents == ParseIntOr0(fd.dependents)
        isMarried == fd.maritalStatus = "married"
    IN  IF j = "MT" THEN calculateMaltaIncomeTax(income, isMarried, dependents)
        ELSE IF j = "FR"
             THEN calculateFranceIncomeTax(income, isMarried, dependents)
        ELSE calculateGenericIncomeTax(j, income, isMarried, dependents)

----------------------------------------------------------------------------
(* src/TaxCalculator.jsx : VAT, corporate tax, property tax *)

\* the vatRates table: the rate strings offered for a jurisdiction
vatRates(j) ==
    IF j = "FR" THEN {"20", "10", "5.5", "2.1"}
    ELSE {"18", "7", "5", "0"}    \* vatRates[jurisdiction] || vatRates.MT

\* parseFloat(formData.vatRate) || 0, in tenths of a percent
ParseVatRate(s) ==
    CASE s = "18"  -> 180
      [] s = "7"   -> 70
      [] s = "5"   -> 50
      [] s = "0"   -> 0
      [] s = "20"  -> 200
      [] s = "10"  -> 100
      [] s = "5.5" -> 55
      [] s = "2.1" -> 21
      [] OTHER     -> 0

\* calculateVAT() ; vatRate in tenths of a percent, vatAmount and
\* totalAmount fractions of units
calculateVAT(j, fd) ==
    LET amount == ParseFloatOr0(fd.vatAmount)
        rate == ParseVatRate(fd.vatRate)
        vatAmount == Frac(amount * rate, 1000)
    IN  [kind |-> "vat",
         netAmount |-> amount,
         vatRate |-> rate,
         vatAmount |-> vatAmount,
         totalAmount |-> Frac(amount * 1000 + vatAmount.n, 1000),
         jurisdiction |-> j]

\* the rate chosen by calculateCorporateTax, in percent
CorporateRate(j, taxableProfit) ==
    IF j = "MT" THEN 35
    ELSE IF j = "FR" THEN (IF taxableProfit <= Euro(42500) THEN 15 ELSE 25)
    ELSE 25

\* calculateCorporateTax() ; corporateTax and netProfit fractions of units
calculateCorporateTax(j, fd) ==
    LET profit == ParseFloatOr0(fd.income)
        expenses == ParseFloatOr0(fd.businessExpenses)
        taxableProfit == Max(0, profit - expenses)
        rate == CorporateRate(j, taxableProfit)
        tax == FracTimesRate(Frac(taxableProfit, 1), rate)
    IN  [kind |-> "corporate",
         grossProfit |-> profit,
         businessExpenses |-> expenses,
         taxableProfit |-> taxableProfit,
         corporateTaxRate |-> rate,
         corporateTax |-> tax,
         netProfit |-> FracFromAmountMinus(taxableProfit, tax),
         jurisdiction |-> j]

\* the rate chosen by calculatePropertyTax, in percent
PropertyRate(j, isFirstTimeBuyer) ==
    IF j = "MT" THEN (IF isFirstTimeBuyer THEN 0 ELSE 5) ELSE 3

\* calculatePropertyTax() ; propertyTax a fraction of units
calculatePropertyTax(j, fd) ==
    LET value == ParseFloatOr0(fd.propertyValue)
        rate == PropertyRate(j, fd.isFirstTimeBuyer)
    IN  [kind |-> "property",
         propertyValue |-> value,
         taxRate |-> rate,
         propertyTax |-> FracTimesRate(Frac(value, 1), rate),
         isFirstTimeBuyer |-> fd.isFirstTimeBuyer,
         jurisdiction |-> j]

\* the switch of calculateTax
calculationResults(type, j, fd) ==
    CASE type = "income"    -> calculateIncomeTax(j, fd)
      [] type = "vat"       -> calculateVAT(j, fd)
      [] type = "corporate" -> calculateCorporateTax(j, fd)
      [] type = "property"  -> calculatePropertyTax(j, fd)
      [] OTHER -> [kind |-> "error", error |-> "Invalid calculation type"]

----------------------------------------------------------------------------
(* src/TaxCalculator.jsx : state of the component *)

Jurisdictions == {"MT", "FR", "DE"}
CalculationTypes == {"income", "vat", "corporate", "property"}

\* useState(null)
Null == [kind |-> "null"]
NoClosure == [pending |-> FALSE]

\* the initial formData
InitialFormData ==
    [income |-> Empty, maritalStatus |-> "single", dependents |-> Txt(0),
     businessExpenses |-> Empty, vatAmount |-> Empty, vatRate |-> "18",
     propertyValue |-> Empty, isFirstTimeBuyer |-> FALSE]

\* amounts near e euros: e - 1, every multiple of 1/Scale euro from e to
\* e + 1, and e + 2
Near(e) == {Euro(e - 1), Euro(e + 2)} \cup {Euro(e) + k : k \in 0..Scale}

\* amounts (in units) typed into the income / profit field
IncomeAmounts ==
    {Euro(-50000), -1, 0, 1, Euro(45000)}
    \cup Near(9100) \cup Near(14500) \cup Near(60000)
    \cup Near(10777) \cup Near(27478) \cup Near(78570) \cup Near(168994)
    \cup Near(50000) \cup Near(100000) \cup Near(42500)
IncomeTexts == {Empty} \cup {Txt(a) : a \in IncomeAmounts}

\* texts typed into the dependents field: whole numbers and one with a
\* fractional part
DependentsTexts ==
    {Empty, Txt(Euro(1) + 1)}
    \cup {Txt(Euro(k)) : k \in (-NegDependents)..MaxDependents}

ExpenseTexts == {Empty, Txt(Euro(-1000)), Txt(Euro(7500)), Txt(Euro(200000))}
VatAmountTexts == {Empty, Txt(Euro(-100)), Txt(0), Txt(1), Txt(Euro(100))}
PropertyTexts ==
    {Empty, Txt(Euro(-1)), Txt(0), Txt(Euro(200000)), Txt(Euro(350000))}

\* the form contents reachable by typing into the form shown for `type`
FormContents(type, j) ==
    CASE type = "income" ->
           {[InitialFormData EXCEPT !.income = i, !.maritalStatus = m,
                                    !.dependents = d] :
               i \in IncomeTexts, m \in {"single", "married"},
               d \in DependentsTexts}
      [] type = "corporate" ->
           {[InitialFormData EXCEPT !.income = i, !.businessExpenses = e] :
               i \in IncomeTexts, e \in ExpenseTexts}
      [] type = "vat" ->
           {[InitialFormData EXCEPT !.vatAmount = a, !.vatRate = r] :
               a \in VatAmountTexts, r \in vatRates(j) \cup {"18"}}
      [] type = "property" ->
           {[InitialFormData EXCEPT !.propertyValue = v,
                                    !.isFirstTimeBuyer = b] :
               v \in PropertyTexts,
               b \in (IF j = "MT" THEN BOOLEAN ELSE {FALSE})}

----------------------------------------------------------------------------
(* src/TaxCalculator.jsx : calculateTax *)

\* calculateTax, up to the await: the click on "Calculate Tax" (the button
\* is disabled while isCalculating).  The functions called after the await
\* are those of the render the click happened in: they read the
\* calculationType and formData of that render.
CalculateTaxClick ==
    /\ ~isCalculating
    /\ isCalculating' = TRUE
    /\ closure' = [pending |-> TRUE, calculationType |-> calculationType,
                   formData |-> formData]
    /\ UNCHANGED <<jurisdiction, calculationType, formData, results,
                   request, response, tax_calculations, queue, served,
                   now, personaVars, extVars>>

\* calculateTax, after the await: switch, setResults, finally
\* setIsCalculating(false)
CalculateTaxResolve ==
    /\ closure.pending
    /\ results' = calculationResults(closure.calculationType, jurisdiction,
                                     closure.formData)
    /\ isCalculating' = FALSE
    /\ closure' = NoClosure
    /\ UNCHANGED <<jurisdiction, calculationType, formData,
                   request, response, tax_calculations, queue, served,
                   now, personaVars, extVars>>

\* the fields whose inputs the form of a calculation type shows, among
\* income, vatAmount and propertyValue
FieldsShown(type) ==
    CASE type = "income"    -> {"income"}
      [] type = "corporate" -> {"income"}
      [] type = "vat"       -> {"vatAmount"}
      [] type = "property"  -> {"propertyValue"}
      [] OTHER -> {}

\* texts typed into such a field: nothing, or an amount
TypedTexts(field) ==
    CASE field = "income"        -> {Empty, Txt(Euro(45000))}
      [] field = "vatAmount"     -> {Empty, Txt(Euro(100))}
      [] field = "propertyValue" -> {Empty, Txt(Euro(200000))}
      [] OTHER -> {Empty}

\* onClick={() => setCalculationType(type.id)} of a calculation type button
setCalculationType(type) ==
    /\ calculationType' = type
    /\ UNCHANGED <<jurisdiction, formData, results, isCalculating, closure,
                   request, response, tax_calculations, queue, served,
                   now, personaVars, extVars>>

\* updateFormData(field, value), from the input of a field the form shows
updateFormData(field, value) ==
    /\ field \in FieldsShown(calculationType)
    /\ formData' = [formData EXCEPT ![field] = value]
    /\ UNCHANGED <<jurisdiction, calculationType, results, isCalculating,
                   closure, request, response, tax_calculations, queue,
                   served, now, personaVars, extVars>>

----------------------------------------------------------------------------
(* src/unnamed/part_010 : the tax-calculation edge function *)

\* JSON values of the request body; amounts are numbers of units
Num(v) == [t |-> "number", v |-> v]
Str == [t |-> "string", v |-> 0]      \* a string that is no number: "abc"
Absent == [t |-> "absent", v |-> 0]   \* the key is missing

\* brackets for marital_status === 'single', limits in euros, rate in percent
SingleBrackets ==
    << [limit |-> 9100,     rate |-> 0],
       [limit |-> 14500,    rate |-> 15],
       [limit |-> 19500,    rate |-> 25],
       [limit |-> 60000,    rate |-> 25],
       [limit |-> Infinity, rate |-> 35] >>

\* brackets for every other marital_status
MarriedBrackets ==
    << [limit |-> 12700,    rate |-> 0],
       [limit |-> 21200,    rate |-> 15],
       [limit |-> 28700,    rate |-> 25],
       [limit |-> 60000,    rate |-> 25],
       [limit |-> Infinity, rate |-> 35] >>

\* const { marital_status = 'single' } : the default of a missing key
MaritalStatusOrDefault(m) == IF m = "absent" THEN "single" ELSE m
\* const { calculation_type = 'income_tax' }
CalculationTypeOrDefault(c) == IF c = "absent" THEN "income_tax" ELSE c

\* if (!annual_income || annual_income <= 0) : the request is refused.
\* A string that is no number is truthy and compares false with 0.
EdgeRefuses(annual_income) ==
    \/ annual_income.t = "absent"
    \/ annual_income.t = "number" /\ annual_income.v <= 0

EdgeBrackets(marital_status) ==
    IF marital_status = "single" THEN SingleBrackets ELSE MarriedBrackets

\* i === 0 ? 0 : brackets[i-1].limit
PrevLimit(brackets, i) == IF i = 1 THEN 0 ELSE brackets[i - 1].limit

\* Math.min(remaining_income, bracket.limit - prev_limit), in units
TaxableInBracket(remaining, brackets, i) ==
    IF brackets[i].limit = Infinity THEN remaining
    ELSE Min(remaining, Euro(brackets[i].limit - PrevLimit(brackets, i)))

\* the loop over the brackets from index i with remaining_income = remaining
\* (a number of units): the breakdown entries pushed.  taxable_amount is in
\* units, tax_amount a fraction of units.
RECURSIVE EdgeLoop(_, _, _, _)
EdgeLoop(i, remaining, brackets, annual_income) ==
    IF i > Len(brackets) \/ remaining <= 0 THEN <<>>
    ELSE LET taxable == TaxableInBracket(remaining, brackets, i)
             entry == [prev_limit |-> PrevLimit(brackets, i),
                       upto |-> IF brackets[i].limit = Infinity
                                THEN annual_income
                                ELSE Min(Euro(brackets[i].limit), annual_income),
                       rate |-> brackets[i].rate,
                       taxable_amount |-> taxable,
                       tax_amount |-> Frac(taxable * brackets[i].rate, 100)]
         IN  (IF taxable > 0 THEN <<entry>> ELSE <<>>)
             \o EdgeLoop(i + 1, remaining - taxable, brackets, annual_income)

\* the income_tax branch.  tax_due is Math.round(tax_due * 100) / 100 and
\* effective_rate Math.round(effective_rate * 100) / 100: fractions over
\* 100, tax_due of a euro, effective_rate of a percent.
EdgeIncomeTax(annual_income, marital_status, date) ==
    IF annual_income.t = "string"
    THEN \* every comparison and Math.min with the string gives false / NaN
         [kind |-> "income_tax", annual_income |-> annual_income,
          marital_status |-> marital_status,
          tax_due |-> Frac(0, 100),
          effective_rate |-> Frac(0, 0),
          breakdown |-> <<>>,
          calculation_date |-> date]
    ELSE LET income == annual_income.v
             breakdown == EdgeLoop(1, income, EdgeBrackets(marital_status),
                                   income)
             \* tax_due before rounding, over 100 * Scale of a euro
             raw == SumSeq([k \in 1..Len(breakdown) |->
                               breakdown[k].tax_amount.n])
         IN  [kind |-> "income_tax", annual_income |-> annual_income,
              marital_status |-> marital_status,
              tax_due |-> Frac(RoundDiv(raw, Scale), 100),
              effective_rate |-> Frac(RoundDiv(100 * raw, income), 100),
              breakdown |-> breakdown,
              calculation_date |-> date]

\* the handler, from the request to the response; date is what
\* new Date().toISOString() returns while it runs
EdgeResponse(req, date) ==
    IF req.method = "OPTIONS" THEN [status |-> 200, body |-> [kind |-> "ok"]]
    ELSE IF ~req.json_ok
    THEN [status |-> 500, body |-> [kind |-> "error"]]
    ELSE IF EdgeRefuses(req.annual_income)
    THEN [status |-> 400, body |-> [kind |-> "error"]]
    ELSE IF CalculationTypeOrDefault(req.calculation_type) = "income_tax"
    THEN [status |-> 200,
          body |-> EdgeIncomeTax(req.annual_income,
                                 MaritalStatusOrDefault(req.marital_status),
                                 date)]
    ELSE [status |-> 200, body |-> [kind |-> "empty"]]

\* whether the handler reaches the insert into tax_calculations
EdgeInserts(req) ==
    /\ req.method # "OPTIONS"
    /\ req.json_ok
    /\ ~EdgeRefuses(req.annual_income)

NoRequest == [method |-> "none"]
NoResponse == [status |-> 0]

\* annual_income values sent to the edge function
EdgeAmounts ==
    {Euro(-1), 0, 1, Euro(45000)}
    \cup Near(9100) \cup Near(12700) \cup Near(14500) \cup Near(60000)
EdgeIncomes == {Absent, Str} \cup {Num(a) : a \in EdgeAmounts}

Requests ==
    {[method |-> "OPTIONS", json_ok |-> TRUE, annual_income |-> Absent,
      marital_status |-> "absent", calculation_type |-> "absent"],
     [method |-> "POST", json_ok |-> FALSE, annual_income |-> Absent,
      marital_status |-> "absent", calculation_type |-> "absent"]}
    \cup [method : {"POST"}, json_ok : {TRUE}, annual_income : EdgeIncomes,
          marital_status : {"absent", "single", "married", "divorced"},
          calculation_type : {"absent", "income_tax", "vat"}]

\* a well-formed request, sent between two others
OtherRequest ==
    [method |-> "POST", json_ok |-> TRUE, annual_income |-> Num(Euro(45000)),
     marital_status |-> "married", calculation_type |-> "income_tax"]

\* the requests that follow a first request req: none, or req once more
\* after up to MaxCalls - 2 other requests
QueueContents(req) ==
    {<<>>} \cup {[i \in 1..(k + 1) |-> IF i <= k THEN OtherRequest ELSE req] :
                    k \in 0..(MaxCalls - 2)}

\* serve(async (req) => ...) : one request, from arrival to response
EdgeServe ==
    /\ request # NoRequest
    /\ response = NoResponse
    /\ response' = EdgeResponse(request, now)
    /\ tax_calculations' =
           tax_calculations + (IF EdgeInserts(request) THEN 1 ELSE 0)
    /\ UNCHANGED <<jurisdiction, calculationType, formData, results,
                   isCalculating, closure, request, queue, served, now,
                   personaVars, extVars>>

\* serve(...) takes the next request, at the same instant of the clock or
\* at the next; the call just answered joins the calls served
EdgeAccept ==
    /\ response # NoResponse
    /\ queue # <<>>
    /\ served' = Append(served, [request |-> request, response |-> response])
    /\ request' = Head(queue)
    /\ queue' = Tail(queue)
    /\ response' = NoResponse
    /\ now' \in {now, now + 1}
    /\ UNCHANGED <<jurisdiction, calculationType, formData, results,
                   isCalculating, closure, tax_calculations, personaVars,
                   extVars>>

----------------------------------------------------------------------------
(* src/unnamed/part_007 (PersonaSelector) and src/JurisdictionCloner.jsx : *)
(* the persona list kept in localStorage under the key                     *)
(* personas-<jurisdiction>-<language>.  One key is modelled: the one the   *)
(* selectors show and the cloner targets.  A persona is its id, isDefault  *)
(* and whether it was edited; the selection state of the selector          *)
(* (selectedPersona, dialogs) is not part of the model.                    *)

Tabs == 1..NumTabs

\* localStorage.getItem(key) === null
NoItem == [present |-> FALSE, list |-> <<>>]
Item(list) == [present |-> TRUE, list |-> list]

\* useState([]) before the effect has run
Unmounted == [mounted |-> FALSE, personas |-> <<>>]

\* an id: a text and, for `custom-${Date.now()}`, the number in it
Id(text, n) == [text |-> text, n |-> n]

Persona(id, isDefault) == [id |-> id, isDefault |-> isDefault,
                           edited |-> FALSE]

\* getDefaultPersonas(jurisdiction, language)
getDefaultPersonas(j) ==
    << Persona(Id("individual-employee", 0), TRUE),
       Persona(Id("self-employed", 0), TRUE),
       Persona(Id("small-business", 0), TRUE),
       Persona(Id("family-household", 0), TRUE) >>
    \o (IF j = "MT" THEN << Persona(Id("malta-resident", 0), TRUE) >>
        ELSE IF j = "FR" THEN << Persona(Id("french-resident", 0), TRUE) >>
        ELSE << >>)

\* the id of the next custom persona: `custom-${Date.now()}`
CustomId(k) == Id("custom", k)

\* clonedPersona of saveClonedConfiguration, the clone of a default persona:
\* {...persona, id: `${persona.id}-${target}-${language}`, ...}
clonedPersona == [id |-> Id("individual-employee-<target>-<language>", 0),
                  isDefault |-> TRUE, edited |-> FALSE]

Ids(list) == {list[k].id : k \in 1..Len(list)}

\* a slip: the handler reads the item again instead of its state
personasOf_Reread(t) == storage.list

\* the `personas` state a handler of the selector in tab t reads
personasOf(t) == selector[t].personas

\* useEffect(() => { loadPersonas() }, [jurisdiction, language]) on mount
loadPersonas(t) ==
    /\ ~selector[t].mounted
    /\ IF storage.present
       THEN /\ selector' = [selector EXCEPT
                               ![t] = [mounted |-> TRUE,
                                       personas |-> storage.list]]
            /\ UNCHANGED <<storage, written>>
       ELSE /\ selector' = [selector EXCEPT
                               ![t] = [mounted |-> TRUE,
                                       personas |->
                                           getDefaultPersonas(jurisdiction)]]
            /\ storage' = Item(getDefaultPersonas(jurisdiction))
            /\ written' = written
                            \cup Ids(getDefaultPersonas(jurisdiction))
    /\ UNCHANGED <<created, cloningHistory, calcVars, extVars>>

\* handleCreatePersona(personaData)
handleCreatePersona(t) ==
    /\ selector[t].mounted
    /\ created < MaxCustom
    /\ LET newPersona == Persona(CustomId(created + 1), FALSE)
           updatedPersonas == Append(personasOf(t), newPersona)
       IN  /\ selector' = [selector EXCEPT ![t].personas = updatedPersonas]
           /\ storage' = Item(updatedPersonas)
           /\ written' = written \cup Ids(updatedPersonas)
    /\ created' = created + 1
    /\ UNCHANGED <<cloningHistory, calcVars, extVars>>

\* handleEditPersona(personaData) for editingPersona.id = id; the edit
\* button is shown for personas that are not default
handleEditPersona(t, id) ==
    /\ selector[t].mounted
    /\ \E k \in 1..Len(selector[t].personas) :
          /\ selector[t].personas[k].id = id
          /\ ~selector[t].personas[k].isDefault
    /\ LET updatedPersonas ==
               [k \in 1..Len(personasOf(t)) |->
                   IF personasOf(t)[k].id = id
                   THEN [personasOf(t)[k] EXCEPT !.edited = TRUE]
                   ELSE personasOf(t)[k]]
       IN  /\ selector' = [selector EXCEPT ![t].personas = updatedPersonas]
           /\ storage' = Item(updatedPersonas)
           /\ written' = written \cup Ids(updatedPersonas)
    /\ UNCHANGED <<created, cloningHistory, calcVars, extVars>>

\* a slip: the test of handleDeletePersona is left out
isDefaultIn_Never(list, id) == FALSE

\* personas.find(p => p.id === personaId)?.isDefault : the first persona
\* with the id is a default one
isDefaultIn(list, id) ==
    \E k \in 1..Len(list) :
        /\ list[k].id = id
        /\ list[k].isDefault
        /\ \A m \in 1..(k - 1) : list[m].id # id

\* handleDeletePersona(personaId).  For a default persona it returns at
\* once: such a call changes nothing and is a stuttering step.
handleDeletePersona(t, id) ==
    /\ selector[t].mounted
    /\ id \in Ids(personasOf(t))
    /\ ~isDefaultIn(personasOf(t), id)
    /\ LET keep(q) == q.id # id
           updatedPersonas == SelectSeq(personasOf(t), keep)
       IN  /\ selector' = [selector EXCEPT ![t].personas = updatedPersonas]
           /\ storage' = Item(updatedPersonas)
           /\ written' = (written \ {id}) \cup Ids(updatedPersonas)
    /\ UNCHANGED <<created, cloningHistory, calcVars, extVars>>

\* saveClonedConfiguration(): getItem, replace or push, setItem, and one
\* more entry in jurisdiction-cloning-history; no await in between
saveClonedConfiguration ==
    /\ cloningHistory < MaxClones
    /\ LET existingPersonas == IF storage.present THEN storage.list ELSE <<>>
           updated ==
               IF clonedPersona.id \in Ids(existingPersonas)
               THEN [k \in 1..Len(existingPersonas) |->
                        IF existingPersonas[k].id = clonedPersona.id
                        THEN clonedPersona ELSE existingPersonas[k]]
               ELSE Append(existingPersonas, clonedPersona)
       IN  /\ storage' = Item(updated)
           /\ written' = written \cup Ids(updated)
    /\ cloningHistory' = cloningHistory + 1
    /\ UNCHANGED <<selector, created, calcVars, extVars>>

\* no persona list has been loaded or stored
PersonasUntouched ==
    /\ storage = NoItem
    /\ selector = [t \in Tabs |-> Unmounted]
    /\ created = 0
    /\ written = {}
    /\ cloningHistory = 0

----------------------------------------------------------------------------
(* src/unnamed/part_000 : the service worker, fetch handler *)

\* the URLs of the GET requests the pages make
Urls == {"/index.html", "/api/chat/send", "/api/profile", "/dashboard",
         "/offline.html", "/icons/logo.png"}

\* the branch of the fetch handler a GET request takes
UrlKind(url) ==
    CASE url = "/index.html" -> "static"      \* STATIC_FILES.includes(...)
      [] url \in {"/api/chat/send", "/api/profile"} -> "api"
      [] url \in {"/dashboard", "/offline.html"} -> "page"   \* text/html
      [] OTHER -> "other"

\* url.pathname.includes('/chat/') || url.pathname.includes('/calculate/')
IsCriticalEndpoint(url) == url = "/api/chat/send"

\* what fetch(request) does: 0 is a rejected promise (no network), any
\* other number the status of the response
NetworkOutcomes == {0, 200, 404, 500}

EmptyCache == [url \in Urls |-> 0]
NoDelivery == [url |-> "", status |-> 0, source |-> "none"]
Delivery(url, status, source) ==
    [url |-> url, status |-> status, source |-> source]

\* caches.match(request): the status of the cached response, 0 for none;
\* STATIC_CACHE holds 200 responses only (cache.addAll rejects others)
cachesMatch(url) ==
    IF UrlKind(url) = "static" /\ staticCached THEN 200
    ELSE dynamicCache[url]

\* whether a branch puts the network response into DYNAMIC_CACHE
PutsInCache(kind, status) ==
    CASE kind = "api"   -> status = 200
      [] kind = "page"  -> TRUE
      [] kind = "other" -> status = 200
      [] OTHER -> FALSE

\* the install event: cache.addAll(STATIC_FILES), all files or none
SWInstall ==
    /\ ~staticCached
    /\ \E ok \in BOOLEAN : staticCached' = ok
    /\ UNCHANGED <<dynamicCache, delivered, offlineActions, syncRun,
                   attempted>>
    /\ UNCHANGED nonWorkerVars

\* the fetch event of a GET request for url, the network doing `net`
SWFetch(url, net) ==
    LET kind == UrlKind(url)
        cached == cachesMatch(url)
        networkFirst == kind \in {"api", "page"}
        fromCache == cached # 0 /\ (~networkFirst \/ net = 0)
        fromNetwork == net # 0 /\ (networkFirst \/ cached = 0)
    IN  /\ dynamicCache' =
              IF fromNetwork /\ PutsInCache(kind, net)
              THEN [dynamicCache EXCEPT ![url] = net]
              ELSE dynamicCache
        /\ delivered' =
              IF fromCache THEN Delivery(url, cached, "cache")
              ELSE IF fromNetwork THEN Delivery(url, net, "network")
              ELSE IF kind = "api" /\ IsCriticalEndpoint(url)
              THEN Delivery(url, 503, "offline")
              ELSE IF kind = "page" /\ cachesMatch("/offline.html") # 0
              THEN Delivery(url, cachesMatch("/offline.html"), "cache")
              ELSE Delivery(url, 0, "error")
        /\ UNCHANGED <<staticCached, offlineActions, syncRun, attempted>>
        /\ UNCHANGED nonWorkerVars

----------------------------------------------------------------------------
(* src/unnamed/part_000 : the service worker, background sync *)

\* action.type of a queued action; "other" is a type syncAction's switch
\* does not know
ActionTypes == {"chat_message", "document_upload", "feedback_submission",
                "other"}

\* the contents of the store `actions`: keys 1..n, each with a type
OfflineQueues ==
    UNION {{ {[id |-> i, type |-> f[i]] : i \in 1..n} :
               f \in [1..n -> ActionTypes] } : n \in 0..MaxActions}

NoSync == [active |-> FALSE, left |-> <<>>]

\* store.getAll(): the actions in key order
RECURSIVE InKeyOrder(_)
InKeyOrder(actions) ==
    IF actions = {} THEN <<>>
    ELSE LET first == CHOOSE a \in actions : \A b \in actions : a.id <= b.id
         IN  <<first>> \o InKeyOrder(actions \ {first})

\* whether `await syncAction(action)` returns: the type is known and the
\* promise of fetch is fulfilled, whatever the status of the response
Synced(type, net) == type # "other" /\ net # 0

\* the sync event with tag sync-offline-actions, up to the start of the
\* loop: offlineActions = await getOfflineActions()
SyncBegin ==
    /\ ~syncRun.active
    /\ Len(attempted) + Cardinality(offlineActions) <= MaxAttempts
    /\ syncRun' = [active |-> offlineActions # {},
                   left |-> InKeyOrder(offlineActions)]
    /\ UNCHANGED <<staticCached, dynamicCache, delivered, offlineActions,
                   attempted>>
    /\ UNCHANGED nonWorkerVars

\* one turn of the loop: await syncAction(action), then
\* await removeOfflineAction(action.id), or the catch of the turn
SyncStep(net) ==
    /\ syncRun.active
    /\ LET action == Head(syncRun.left)
       IN  /\ offlineActions' =
                 IF Synced(action.type, net)
                 THEN offlineActions \ {action}
                 ELSE offlineActions
           /\ attempted' = Append(attempted,
                                  [action |-> action,
                                   outcome |-> IF action.type = "other"
                                               THEN 0 ELSE net])
    /\ syncRun' = [active |-> Tail(syncRun.left) # <<>>,
                   left |-> Tail(syncRun.left)]
    /\ UNCHANGED <<staticCached, dynamicCache, delivered>>
    /\ UNCHANGED nonWorkerVars

\* the service worker has handled nothing yet
WorkerUntouched ==
    /\ staticCached = FALSE
    /\ dynamicCache = EmptyCache
    /\ delivered = NoDelivery
    /\ offlineActions = {}
    /\ syncRun = NoSync
    /\ attempted = <<>>

----------------------------------------------------------------------------
(* src/unnamed/part_009 and src/unnamed/part_003 : the tables              *)
(* conversations and messages and the row level security of messages;      *)
(* src/unnamed/part_010 : the chat handler.  A row of messages is its      *)
(* conversation_id, user_id and type; `by` records the session that        *)
(* inserted it.  Content, metadata and timestamps are not modelled.        *)

Users == {"u1", "u2"}
Conversations == 1..NumConversations
MessageTypes == {"user", "assistant", "system"}

\* the key of the service role, which bypasses row level security
ServiceRole == "service_role"

\* a session: auth.uid() and auth.jwt() ->> 'role'
Sessions ==
    [uid : Users, role : {"authenticated"}]
        \cup {[uid |-> ServiceRole, role |-> ServiceRole]}

\* the rows an insert can ask for
Rows == [conversation_id : Conversations, user_id : Users,
         type : MessageTypes]

\* conversations created by their owners, no message yet
InitialConversations ==
    [c \in Conversations |->
        [user_id |-> IF c = 1 THEN "u1" ELSE "u2", message_count |-> 0]]

\* policy "Users can insert own messages", WITH CHECK
UsersCanInsertOwnMessages(session, row) ==
    \E c \in DOMAIN conversations :
        c = row.conversation_id /\ conversations[c].user_id = session.uid

\* policy "System can insert assistant messages", WITH CHECK
SystemCanInsertAssistantMessages(session, row) ==
    session.role = ServiceRole \/ row.type = "user"

\* the permissive INSERT policies of messages are combined with OR; the
\* service role is not subject to them
InsertAllowed(session, row) ==
    \/ session.role = ServiceRole
    \/ UsersCanInsertOwnMessages(session, row)
    \/ SystemCanInsertAssistantMessages(session, row)

Stored(row, by) == [conversation_id |-> row.conversation_id,
                    user_id |-> row.user_id, type |-> row.type, by |-> by]

\* INSERT INTO public.messages by a session; a row the policies reject is
\* not stored
InsertMessage(session, row) ==
    /\ Len(messages) < MaxRows
    /\ messages' = IF InsertAllowed(session, row)
                   THEN Append(messages, Stored(row, session.uid))
                   ELSE messages
    /\ UNCHANGED <<conversations, chatResponse>>
    /\ UNCHANGED nonDbVars

\* the rows of a conversation, oldest first
RowsOf(c) == LET in(r) == r.conversation_id = c IN SelectSeq(messages, in)

\* .limit(n)
Limit(rows, n) == SubSeq(rows, 1, Min(n, Len(rows)))

\* no response sent yet
NoChatResponse == [status |-> 0, conversation_id |-> 0]

\* the bodies the chat handler is called with: a message for a conversation
\* of the user, or no message
ChatRequests ==
    [message : {"", "hello"}, conversation_id : {1}, user_id : {"u1"}]

\* serve(async (req) => ...): the chat handler, for a POST with body req;
\* openai is whether the call of the OpenAI API gave an answer
ChatHandler(req, openai) ==
    IF req.message = ""
    THEN /\ chatResponse' = [status |-> 400, conversation_id |-> 0]
         /\ UNCHANGED <<messages, conversations>>
         /\ UNCHANGED nonDbVars
    ELSE LET c == req.conversation_id
             userRow == [conversation_id |-> c, user_id |-> req.user_id,
                         type |-> "user", by |-> ServiceRole]
             assistantRow == [userRow EXCEPT !.type = "assistant"]
             withUser == Append(messages, userRow)
             inC(r) == r.conversation_id = c
             messageHistory == Limit(SelectSeq(withUser, inC), HistoryLimit)
         IN  /\ Len(messages) + 2 <= MaxChatRows
             /\ IF openai
                THEN /\ messages' = Append(withUser, assistantRow)
                     /\ conversations' =
                          [conversations EXCEPT
                              ![c].message_count = Len(messageHistory) + 2]
                     /\ chatResponse' = [status |-> 200,
                                         conversation_id |-> c]
                ELSE /\ messages' = withUser
                     /\ UNCHANGED conversations
                     /\ chatResponse' = [status |-> 500,
                                         conversation_id |-> 0]
             /\ UNCHANGED nonDbVars

\* the tables as created, the handler not yet called
DbUntouched ==
    /\ messages = <<>>
    /\ conversations = InitialConversations
    /\ chatResponse = NoChatResponse

----------------------------------------------------------------------------
(* src/JurisdictionCloner.jsx : the steps of the cloner.  The current      *)
(* jurisdiction is the prop the calculator also gets; of localStorage the  *)
(* model keeps, per key personas-<jurisdiction>-<language>, whether the    *)
(* item holds the cloned persona.  The progress display and the choice of  *)
(* components are not modelled.                                            *)

availableJurisdictions ==
    << [code |-> "MT", languages |-> {"en", "mt"}],
       [code |-> "FR", languages |-> {"fr", "en"}],
       [code |-> "DE", languages |-> {"de", "en"}],
       [code |-> "IT", languages |-> {"it", "en"}],
       [code |-> "ES", languages |-> {"es", "en"}],
       [code |-> "NL", languages |-> {"nl", "en"}],
       [code |-> "BE", languages |-> {"fr", "nl", "de", "en"}],
       [code |-> "LU", languages |-> {"fr", "de", "en"}],
       [code |-> "IE", languages |-> {"en", "ga"}],
       [code |-> "CY", languages |-> {"en", "el"}],
       [code |-> "CA", languages |-> {"en", "fr"}],
       [code |-> "AU", languages |-> {"en"}],
       [code |-> "NZ", languages |-> {"en"}],
       [code |-> "SG", languages |-> {"en"}],
       [code |-> "HK", languages |-> {"en", "zh"}] >>

\* getAvailableLanguages(jurisdictionCode)
getAvailableLanguages(jurisdictionCode) ==
    IF \E k \in 1..Len(availableJurisdictions) :
          availableJurisdictions[k].code = jurisdictionCode
    THEN LET k == CHOOSE m \in 1..Len(availableJurisdictions) :
                     availableJurisdictions[m].code = jurisdictionCode
         IN  availableJurisdictions[k].languages
    ELSE {"en"}

\* the items of the target jurisdiction Select: the jurisdictions other
\* than the current one, here those among the first MaxTargets + 1
TargetItems ==
    {availableJurisdictions[k].code :
        k \in 1..Min(MaxTargets + 1, Len(availableJurisdictions))}
      \ {jurisdiction}

\* onValueChange={setSelectedTargetJurisdiction}
setSelectedTargetJurisdiction(code) ==
    /\ cloningStep = "select"
    /\ code \in TargetItems
    /\ selectedTargetJurisdiction' = code
    /\ UNCHANGED <<selectedTargetLanguage, cloningStep, personaProp,
                   clonedItems>>
    /\ UNCHANGED <<personaVars, nonClonerVars>>

\* onValueChange={setSelectedTargetLanguage}; the Select is disabled while
\* no jurisdiction is selected and lists the languages of the selected one
setSelectedTargetLanguage(lang) ==
    /\ cloningStep = "select"
    /\ selectedTargetJurisdiction # ""
    /\ lang \in getAvailableLanguages(selectedTargetJurisdiction)
    /\ selectedTargetLanguage' = lang
    /\ UNCHANGED <<selectedTargetJurisdiction, cloningStep, personaProp,
                   clonedItems>>
    /\ UNCHANGED <<personaVars, nonClonerVars>>

\* handleStartCloning()
handleStartCloning ==
    /\ cloningStep = "select"
    /\ cloningStep' = IF selectedTargetJurisdiction = ""
                         \/ selectedTargetLanguage = ""
                      THEN cloningStep
                      ELSE "configure"
    /\ UNCHANGED <<selectedTargetJurisdiction, selectedTargetLanguage,
                   personaProp, clonedItems>>
    /\ UNCHANGED <<personaVars, nonClonerVars>>

\* handleConfigureCloning(): the step becomes 'clone' and performCloning
\* starts
handleConfigureCloning ==
    /\ cloningStep = "configure"
    /\ cloningStep' = "clone"
    /\ UNCHANGED <<selectedTargetJurisdiction, selectedTargetLanguage,
                   personaProp, clonedItems>>
    /\ UNCHANGED <<personaVars, nonClonerVars>>

\* where saveClonedConfiguration can throw: nowhere, at the item of the
\* personas (getItem, JSON.parse, setItem), at the item of the history
Throws == {"none", "personas", "history"}

\* performCloning() after its last timer: setCloningStep('complete'), then
\* saveClonedConfiguration(), whose try/catch keeps every error;
\* persona.id throws when the prop is missing
performCloning(throws) ==
    /\ cloningStep = "clone"
    /\ cloningHistory < MaxClones
    /\ Cardinality(clonedItems) < MaxClones
    /\ cloningStep' = "complete"
    /\ clonedItems' =
          IF personaProp /\ throws # "personas"
          THEN clonedItems \cup {<<selectedTargetJurisdiction,
                                   selectedTargetLanguage>>}
          ELSE clonedItems
    /\ cloningHistory' =
          IF personaProp /\ throws = "none"
          THEN cloningHistory + 1
          ELSE cloningHistory
    /\ UNCHANGED <<selectedTargetJurisdiction, selectedTargetLanguage,
                   personaProp>>
    /\ UNCHANGED <<storage, selector, created, written, nonClonerVars>>

\* resetCloning(), the button of the steps 'configure' and 'complete'
resetCloning ==
    /\ cloningStep \in {"configure", "complete"}
    /\ cloningStep' = "select"
    /\ selectedTargetJurisdiction' = ""
    /\ selectedTargetLanguage' = ""
    /\ UNCHANGED <<personaProp, clonedItems>>
    /\ UNCHANGED <<personaVars, nonClonerVars>>

\* handleSwitchToClonedJurisdiction(): onJurisdictionChange(target) and
\* window.location.reload(), after which the cloner is mounted afresh
handleSwitchToClonedJurisdiction ==
    /\ cloningStep = "complete"
    /\ jurisdiction' = selectedTargetJurisdiction
    /\ cloningStep' = "select"
    /\ selectedTargetJurisdiction' = ""
    /\ selectedTargetLanguage' = ""
    /\ UNCHANGED <<personaProp, clonedItems>>
    /\ UNCHANGED <<calculationType, formData, results, isCalculating,
                   closure, request, response, tax_calculations, queue,
                   served, now>>
    /\ UNCHANGED <<personaVars, workerVars, dbVars, wizardVars>>

\* the cloner as mounted
ClonerUntouched ==
    /\ selectedTargetJurisdiction = ""
    /\ selectedTargetLanguage = ""
    /\ cloningStep = "select"
    /\ personaProp = TRUE
    /\ clonedItems = {}

----------------------------------------------------------------------------
(* src/unnamed/part_003 : the onboarding wizard.  Of its formData the      *)
(* model keeps the fields canProceed reads; taxId and language are left    *)
(* out.  A text field is empty or holds some text.                         *)

jurisdictions == {"malta", "cyprus", "ireland", "luxembourg"}
userTypes == {"individual", "business", "advisor", "vsp"}
authMethods == {"demo", "whatsapp", "email"}
Texts == {"", "text"}

\* the index of the last step, steps.length - 1
LastStep == 4

\* useState({jurisdiction: 'malta', authMethod: '', ...})
InitialWizardForm ==
    [jurisdiction |-> "malta", authMethod |-> "", userType |-> "",
     name |-> "", email |-> "", phone |-> "",
     acceptTerms |-> FALSE, acceptPrivacy |-> FALSE]

\* canProceed(), as a truth value
canProceed ==
    CASE currentStep = 0 -> wizardForm.jurisdiction # ""
      [] currentStep = 1 -> wizardForm.authMethod # "" \/ showDemo
      [] currentStep = 2 -> wizardForm.userType # ""
      [] currentStep = 3 -> wizardForm.name # "" /\
                              (wizardForm.email # "" \/
                                 wizardForm.phone # "")
      [] currentStep = 4 -> wizardForm.acceptTerms /\
                              wizardForm.acceptPrivacy
      [] OTHER -> TRUE

\* setFormData({...formData, [field]: value}) of the step shown
setFormData(field, value) ==
    /\ wizardForm' = [wizardForm EXCEPT ![field] = value]
    /\ UNCHANGED <<currentStep, showDemo, onboarded>>
    /\ UNCHANGED nonWizardVars

\* JurisdictionStep: a click on a jurisdiction card
selectJurisdiction(value) ==
    /\ ~onboarded
    /\ currentStep = 0
    /\ setFormData("jurisdiction", value)

\* AuthMethodStep: a click on one of the three cards
chooseAuthMethod(method) ==
    /\ ~onboarded
    /\ currentStep = 1
    /\ showDemo' = (method = "demo")
    /\ wizardForm' = [wizardForm EXCEPT !.authMethod = method]
    /\ UNCHANGED <<currentStep, onboarded>>
    /\ UNCHANGED nonWizardVars

\* UserTypeStep: a click on a user type card
selectUserType(value) ==
    /\ ~onboarded
    /\ currentStep = 2
    /\ setFormData("userType", value)

\* AccountDetailsStep: typing into an input; in demo mode the step shows
\* no input, the email input needs authMethod 'email' and the phone input
\* authMethod 'whatsapp'
typeAccountDetail(field, value) ==
    /\ ~onboarded
    /\ currentStep = 3
    /\ ~showDemo
    /\ \/ field = "name"
       \/ field = "email" /\ wizardForm.authMethod = "email"
       \/ field = "phone" /\ wizardForm.authMethod = "whatsapp"
    /\ setFormData(field, value)

\* TermsStep: a click on a checkbox; in demo mode the step shows none
checkTerms(field, checked) ==
    /\ ~onboarded
    /\ currentStep = 4
    /\ ~showDemo
    /\ field \in {"acceptTerms", "acceptPrivacy"}
    /\ setFormData(field, checked)

\* nextStep(), the Continue button, disabled={!canProceed()}
nextStep ==
    /\ ~onboarded
    /\ canProceed
    /\ IF currentStep < LastStep
       THEN currentStep' = currentStep + 1 /\ UNCHANGED onboarded
       ELSE onboarded' = TRUE /\ UNCHANGED currentStep
    /\ UNCHANGED <<wizardForm, showDemo>>
    /\ UNCHANGED nonWizardVars

\* prevStep(), the Back button, disabled={currentStep === 0}
prevStep ==
    /\ ~onboarded
    /\ currentStep > 0
    /\ currentStep' = currentStep - 1
    /\ UNCHANGED <<wizardForm, showDemo, onboarded>>
    /\ UNCHANGED nonWizardVars

\* the wizard as mounted
WizardUntouched ==
    /\ currentStep = 0
    /\ wizardForm = InitialWizardForm
    /\ showDemo = FALSE
    /\ onboarded = FALSE

----------------------------------------------------------------------------
(* Initial states of the components *)

\* the components outside the calculator, the edge function and the
\* persona lists are in their initial state
ExtUntouched ==
    /\ WorkerUntouched
    /\ DbUntouched
    /\ ClonerUntouched
    /\ WizardUntouched

\* the calculator and the edge function are idle
CalcUntouched ==
    /\ jurisdiction = "MT"
    /\ calculationType = "income"
    /\ formData = InitialFormData
    /\ results = Null
    /\ isCalculating = FALSE
    /\ closure = NoClosure
    /\ request = NoRequest
    /\ queue = <<>>
    /\ response = NoResponse
    /\ tax_calculations = 0
    /\ served = <<>>
    /\ now = 0

----------------------------------------------------------------------------
(* Specification: a filled-in form of the calculator, a request received  *)
(* by the edge function, or both for the same income and marital status   *)

\* the request that carries the income and marital status of a form
RequestOfForm(fd) ==
    [method |-> "POST", json_ok |-> TRUE,
     annual_income |-> Num(ParseFloatOr0(fd.income)),
     marital_status |-> fd.maritalStatus,
     calculation_type |-> "income_tax"]

Init ==
    /\ jurisdiction \in Jurisdictions
    /\ results = Null
    /\ isCalculating = FALSE
    /\ closure = NoClosure
    /\ response = NoResponse
    /\ tax_calculations = 0
    /\ queue = <<>>
    /\ served = <<>>
    /\ now = 0
    /\ PersonasUntouched
    /\ ExtUntouched
    /\ \/ /\ calculationType \in CalculationTypes
          /\ formData \in FormContents(calculationType, jurisdiction)
          /\ request = NoRequest
       \/ /\ calculationType = "income"
          /\ formData = InitialFormData
          /\ request \in Requests
       \/ /\ calculationType = "income"
          /\ formData \in FormContents("income", jurisdiction)
          /\ request = RequestOfForm(formData)

Next ==
    \/ CalculateTaxClick
    \/ CalculateTaxResolve
    \/ EdgeServe

Spec == Init /\ [][Next]_vars

----------------------------------------------------------------------------
(* Specification of repeated calls: the calculator with an income of       *)
(* 45,000 typed in, and the edge function receiving a request followed by  *)
(* others                                                                  *)

InitCalls ==
    /\ jurisdiction \in Jurisdictions
    /\ calculationType = "income"
    /\ formData = [InitialFormData EXCEPT !.income = Txt(Euro(45000))]
    /\ results = Null
    /\ isCalculating = FALSE
    /\ closure = NoClosure
    /\ request \in Requests
    /\ queue \in QueueContents(request)
    /\ response = NoResponse
    /\ tax_calculations = 0
    /\ served = <<>>
    /\ now = 0
    /\ PersonasUntouched
    /\ ExtUntouched

NextCalls ==
    \/ CalculateTaxClick
    \/ CalculateTaxResolve
    \/ EdgeServe
    \/ EdgeAccept

SpecCalls == InitCalls /\ [][NextCalls]_vars

----------------------------------------------------------------------------
(* Specification of the persona lists: selectors in NumTabs tabs and the   *)
(* jurisdiction cloner, all on the item personas-MT-<language>; the        *)
(* calculator and the edge function stay idle                              *)

InitPersonas ==
    /\ jurisdiction = "MT"
    /\ calculationType = "income"
    /\ formData = InitialFormData
    /\ results = Null
    /\ isCalculating = FALSE
    /\ closure = NoClosure
    /\ request = NoRequest
    /\ queue = <<>>
    /\ response = NoResponse
    /\ tax_calculations = 0
    /\ served = <<>>
    /\ now = 0
    /\ PersonasUntouched
    /\ ExtUntouched

NextPersonas ==
    \/ \E t \in Tabs : loadPersonas(t)
    \/ \E t \in Tabs : handleCreatePersona(t)
    \/ \E t \in Tabs : \E id \in Ids(selector[t].personas) :
          handleEditPersona(t, id)
    \/ \E t \in Tabs : \E id \in Ids(selector[t].personas) :
          handleDeletePersona(t, id)
    \/ saveClonedConfiguration

SpecPersonas == InitPersonas /\ [][NextPersonas]_vars

----------------------------------------------------------------------------
(* Specification of the service worker's fetch handler *)

InitWorker ==
    /\ CalcUntouched
    /\ PersonasUntouched
    /\ ExtUntouched

NextWorker ==
    \/ SWInstall
    \/ \E url \in Urls : \E net \in NetworkOutcomes : SWFetch(url, net)

SpecWorker == InitWorker /\ [][NextWorker]_vars

----------------------------------------------------------------------------
(* Specification of the background sync: a queue of offline actions and    *)
(* sync events                                                             *)

InitSync ==
    /\ CalcUntouched
    /\ PersonasUntouched
    /\ staticCached = FALSE
    /\ dynamicCache = EmptyCache
    /\ delivered = NoDelivery
    /\ offlineActions \in OfflineQueues
    /\ syncRun = NoSync
    /\ attempted = <<>>
    /\ DbUntouched
    /\ ClonerUntouched
    /\ WizardUntouched

NextSync ==
    \/ SyncBegin
    \/ \E net \in NetworkOutcomes : SyncStep(net)

SpecSync == InitSync /\ [][NextSync]_vars

----------------------------------------------------------------------------
(* Specification of the calculator in use: type buttons, form edits and    *)
(* calculations, starting from the component as mounted                    *)

InitTypes ==
    /\ CalcUntouched
    /\ PersonasUntouched
    /\ ExtUntouched

NextTypes ==
    \/ \E type \in CalculationTypes : setCalculationType(type)
    \/ \E field \in FieldsShown(calculationType) :
          \E value \in TypedTexts(field) : updateFormData(field, value)
    \/ CalculateTaxClick
    \/ CalculateTaxResolve

SpecTypes == InitTypes /\ [][NextTypes]_vars

----------------------------------------------------------------------------
(* Specification of the row level security of messages: sessions insert    *)
(* rows through the API                                                    *)

InitRls ==
    /\ CalcUntouched
    /\ PersonasUntouched
    /\ ExtUntouched

NextRls ==
    \E session \in Sessions : \E row \in Rows : InsertMessage(session, row)

SpecRls == InitRls /\ [][NextRls]_vars

----------------------------------------------------------------------------
(* Specification of the chat handler: requests served one after another    *)

InitChat ==
    /\ CalcUntouched
    /\ PersonasUntouched
    /\ ExtUntouched

NextChat ==
    \E req \in ChatRequests : \E openai \in BOOLEAN : ChatHandler(req, openai)

SpecChat == InitChat /\ [][NextChat]_vars

----------------------------------------------------------------------------
(* Specification of the jurisdiction cloner, with or without a persona     *)

InitCloner ==
    /\ CalcUntouched
    /\ PersonasUntouched
    /\ WorkerUntouched
    /\ DbUntouched
    /\ WizardUntouched
    /\ selectedTargetJurisdiction = ""
    /\ selectedTargetLanguage = ""
    /\ cloningStep = "select"
    /\ personaProp \in BOOLEAN
    /\ clonedItems = {}

NextCloner ==
    \/ \E code \in TargetItems : setSelectedTargetJurisdiction(code)
    \/ \E lang \in getAvailableLanguages(selectedTargetJurisdiction) :
          setSelectedTargetLanguage(lang)
    \/ handleStartCloning
    \/ handleConfigureCloning
    \/ \E throws \in Throws : performCloning(throws)
    \/ handleSwitchToClonedJurisdiction
    \/ resetCloning

SpecCloner == InitCloner /\ [][NextCloner]_vars

----------------------------------------------------------------------------
(* Specification of the onboarding wizard *)

InitWizard ==
    /\ CalcUntouched
    /\ PersonasUntouched
    /\ ExtUntouched

NextWizard ==
    \/ \E value \in jurisdictions : selectJurisdiction(value)
    \/ \E method \in authMethods : chooseAuthMethod(method)
    \/ \E value \in userTypes : selectUserType(value)
    \/ \E field \in {"name", "email", "phone"} : \E value \in Texts :
          typeAccountDetail(field, value)
    \/ \E field \in {"acceptTerms", "acceptPrivacy"} :
          \E checked \in BOOLEAN : checkTerms(field, checked)
    \/ nextStep
    \/ prevStep

SpecWizard == InitWizard /\ [][NextWizard]_vars

----------------------------------------------------------------------------
(* Reading the state *)

\* the calculator shows a result of the income calculator
IncomeResult == results.kind = "income"

\* the edge function answered with an income tax result for a number
EdgeIncomeResult ==
    /\ response.status = 200
    /\ response.body.kind = "income_tax"
    /\ response.body.annual_income.t = "number"

\* the form of the state with another income typed in
FormWithIncome(a) == [formData EXCEPT !.income = Txt(a)]

\* the request of the state with another annual_income
RequestWithIncome(a) == [request EXCEPT !.annual_income = Num(a)]

\* a <= b for two finite fractions over the same denominator
SameDenLE(a, b) == a.d > 0 /\ a.d = b.d /\ a.n <= b.n

\* an amount of e euros as a fraction over d
EuroOver(e, d) == Frac(Euro(e) * d, d)

----------------------------------------------------------------------------
(* C1 - Malta, single, no dependents, gross income 45,000: the total is    *)
(* exactly 8,435.00 = 810 + 1,250 + 6,375 and the marginal rate 25%, in    *)
(* the client calculator (calculateMaltaIncomeTax) and in the edge         *)
(* function (tax_due; the rate of the last bracket reached is 25%).        *)
C1_MaltaScenario45000 ==
    /\ ( /\ IncomeResult
         /\ jurisdiction = "MT"
         /\ results.grossIncome = Euro(45000)
         /\ formData.maritalStatus = "single"
         /\ ParseIntOr0(formData.dependents) = 0 )
       => /\ results.totalTax = EuroOver(8435, 100)
          /\ results.marginalRate = 25
          /\ [k \in 1..Len(results.breakdown) |-> results.breakdown[k].tax]
               = << EuroOver(0, 100), EuroOver(810, 100),
                    EuroOver(1250, 100), EuroOver(6375, 100) >>
    /\ ( /\ EdgeIncomeResult
         /\ response.body.annual_income = Num(Euro(45000))
         /\ response.body.marital_status = "single" )
       => /\ response.body.tax_due = Frac(843500, 100)
          /\ [k \in 1..Len(response.body.breakdown) |->
                 response.body.breakdown[k].tax_amount]
               = << EuroOver(0, 100), EuroOver(810, 100),
                    EuroOver(1250, 100), EuroOver(6375, 100) >>
          /\ response.body.breakdown[Len(response.body.breakdown)].rate = 25

\* both calculations of the 45,000 scenario are done
C1_Witness ==
    /\ IncomeResult
    /\ jurisdiction = "MT"
    /\ results.grossIncome = Euro(45000)
    /\ formData.maritalStatus = "single"
    /\ ParseIntOr0(formData.dependents) = 0
    /\ EdgeIncomeResult
    /\ response.body.annual_income = Num(Euro(45000))
    /\ response.body.marital_status = "single"

----------------------------------------------------------------------------
----------------------------------------------------------------------------
(* C3 - the final tax of every adjustment model (Malta and generic flat    *)
(* allowance, France family quotient, corporate tax) is never negative,    *)
(* whatever numbers the form holds, negative ones included.                *)
C3_NeverNegative ==
    /\ IncomeResult => results.totalTax.n >= 0
    /\ results.kind = "corporate" => results.corporateTax.n >= 0

----------------------------------------------------------------------------
(* C4 - for every income tax result with a breakdown, the per-bracket tax  *)
(* amounts sum to the reported total (totalTax, tax_due) within 0.01.      *)

\* the sum of the breakdown's tax amounts, a fraction of units
BreakdownTaxSum(r) ==
    IF r.breakdown = <<>> THEN Frac(0, 100)
    ELSE FracSumSeq([k \in 1..Len(r.breakdown) |-> r.breakdown[k].tax])

\* |a - b| <= 0.01 euro, for fractions of units over multiples of 100
WithinOneCent(a, b) ==
    /\ a.d > 0
    /\ b.d > 0
    /\ LET D == (a.d * b.d) \div 100
       IN  Abs(a.n * (D \div a.d) - b.n * (D \div b.d)) <= (D \div 100) * Scale

C4_BreakdownSumsToTotal ==
    /\ ( /\ IncomeResult
         /\ results.hasBreakdown
         /\ results.grossIncome >= 0
         /\ ParseIntOr0(formData.dependents) >= 0 )
       => WithinOneCent(BreakdownTaxSum(results), results.totalTax)
    /\ EdgeIncomeResult
       => Abs(SumSeq([k \in 1..Len(response.body.breakdown) |->
                         response.body.breakdown[k].tax_amount.n])
              - response.body.tax_due.n * Scale) <= Scale

----------------------------------------------------------------------------
(* C5 - income tax is continuous across every bracket boundary: for the    *)
(* incomes n and n + 1 on either side of a boundary (Malta 9,100 / 14,500  *)
(* / 19,500 / 60,000, France's bracket edges, the generic variant's 50,000 *)
(* and 100,000) the totals differ by at most one unit times the marginal   *)
(* rate of the higher bracket.                                             *)

\* the boundaries of the variant a jurisdiction uses, in euros; France's
\* are edges of the quotient, which is the income for one part
Boundaries(j) ==
    IF j = "MT" THEN {9100, 14500, 19500, 60000}
    ELSE IF j = "FR" THEN {10777, 27478, 78570, 168994}
    ELSE {50000, 100000}

C5_BoundaryContinuity ==
    ( /\ IncomeResult
      /\ \E e \in Boundaries(jurisdiction) : results.grossIncome = Euro(e)
      /\ results.quotientFamilial2 = 2 )
    => LET above == calculateIncomeTax(jurisdiction,
                        FormWithIncome(results.grossIncome + Euro(1)))
       IN  /\ above.totalTax.d = results.totalTax.d
           /\ Abs(above.totalTax.n - results.totalTax.n)
                <= Euro(1) * above.marginalRate * (results.totalTax.d \div 100)

----------------------------------------------------------------------------
(* C6 - every calculation type evaluated with a base amount of 0 returns a *)
(* successful result with total tax 0 and effective rate 0: the client     *)
(* calculator for income, VAT, corporate and property, the edge function   *)
(* for annual_income = 0.                                                  *)
C6_ZeroBase ==
    /\ ( /\ IncomeResult
         /\ results.grossIncome = 0
         /\ ParseIntOr0(formData.dependents) >= 0 )
       => results.totalTax.n = 0 /\ results.totalTax.d > 0
          /\ results.effectiveRate.n = 0 /\ results.effectiveRate.d > 0
    /\ (results.kind = "vat" /\ results.netAmount = 0)
       => results.vatAmount.n = 0
    /\ ( /\ results.kind = "corporate"
         /\ results.grossProfit = 0
         /\ results.businessExpenses >= 0 )
       => results.corporateTax.n = 0
    /\ (results.kind = "property" /\ results.propertyValue = 0)
       => results.propertyTax.n = 0
    /\ ( /\ response # NoResponse
         /\ request.method = "POST"
         /\ request.json_ok
         /\ request.annual_income = Num(0)
         /\ CalculationTypeOrDefault(request.calculation_type) = "income_tax" )
       => /\ response.status = 200
          /\ response.body.kind = "income_tax"
          /\ response.body.tax_due.n = 0
          /\ response.body.effective_rate = Frac(0, 100)

----------------------------------------------------------------------------
(* C7 - in every bracket evaluation the taxable amount attributed to a     *)
(* bracket is min(base, upperBound) - lowerBound clamped to                *)
(* [0, upperBound - lowerBound] (max(0, base - lowerBound) for the         *)
(* unbounded last bracket): never more than the part of the base inside    *)
(* the bracket.                                                            *)

\* the base the client's bracket loop ran on: the income, or the quotient
BaseOf(r) == DivideByParts(r.grossIncome, r.quotientFamilial2)

\* min(base, upper) - lower clamped at 0, over the denominator of the base
WidthInBracket(x, lower, upper) ==
    Frac(Max(0, (IF upper = Infinity THEN x.n
                 ELSE Min(x.n, Euro(upper) * x.d)) - Euro(lower) * x.d), x.d)

C7_TaxableWidth ==
    /\ (IncomeResult /\ results.hasBreakdown /\ BaseOf(results).d > 0)
       => \A k \in 1..Len(results.breakdown) :
             results.breakdown[k].taxableAmount
               = WidthInBracket(BaseOf(results), results.breakdown[k].min,
                                results.breakdown[k].max)
    /\ EdgeIncomeResult
       => \A k \in 1..Len(response.body.breakdown) :
             LET e == response.body.breakdown[k]
                 limit == EdgeBrackets(response.body.marital_status)[
                              CHOOSE i \in 1..5 :
                                 PrevLimit(EdgeBrackets(
                                     response.body.marital_status), i)
                                   = e.prev_limit].limit
             IN  Frac(e.taxable_amount, 1)
                   = WidthInBracket(Frac(response.body.annual_income.v, 1),
                                    e.prev_limit, limit)

----------------------------------------------------------------------------
(* C8 - getMarginalRate returns the rate of the bracket that contains the  *)
(* base for every non-negative base, also one that is no whole number      *)
(* (between one bracket's max and the next bracket's min), and the last    *)
(* bracket's rate only when the base exceeds every finite upper bound.     *)

\* the rates of the brackets that contain x, a bracket reaching from the
\* max of the one before it (0 for the first) to its own max, both edges
\* counted
RatesContaining(x, brackets) ==
    {brackets[i].rate : i \in {i \in 1..Len(brackets) :
        /\ FracGE(x, IF i = 1 THEN 0 ELSE brackets[i - 1].max)
        /\ FracLE(x, brackets[i].max)}}

C8_MarginalRate ==
    ( /\ IncomeResult
      /\ results.hasBreakdown
      /\ BaseOf(results).d > 0
      /\ BaseOf(results).n >= 0 )
    => LET brackets == IF jurisdiction = "MT" THEN MaltaBrackets
                       ELSE FranceBrackets
           last == brackets[Len(brackets)]
       IN  /\ results.marginalRate \in RatesContaining(BaseOf(results), brackets)
           /\ results.marginalRate = last.rate
              => FracGT(BaseOf(results), brackets[Len(brackets) - 1].max)

----------------------------------------------------------------------------
(* C9 - a request carrying a negative amount, a non-numeric amount, a      *)
(* negative dependent count or a marital status outside the supported      *)
(* values is answered with an error result, never calculated with a        *)
(* default in its place: in the client calculator's form parsing and in    *)
(* the edge function.                                                      *)

\* an amount field that holds no number, or a negative one
BadAmount(s) == ~s.num \/ s.v < 0

\* the fields the calculation of `type` reads hold something invalid
BadForm(type, fd) ==
    CASE type = "income" ->
           BadAmount(fd.income) \/ (fd.dependents.num /\ fd.dependents.v < 0)
      [] type = "corporate" ->
           BadAmount(fd.income) \/ BadAmount(fd.businessExpenses)
      [] type = "vat" -> BadAmount(fd.vatAmount)
      [] type = "property" -> BadAmount(fd.propertyValue)
      [] OTHER -> FALSE

\* an income-tax request whose income or marital status is invalid
BadRequest(req) ==
    /\ req.method = "POST"
    /\ req.json_ok
    /\ CalculationTypeOrDefault(req.calculation_type) = "income_tax"
    /\ \/ req.annual_income.t = "string"
       \/ req.annual_income.t = "number" /\ req.annual_income.v < 0
       \/ MaritalStatusOrDefault(req.marital_status) \notin {"single", "married"}

C9_InvalidInputIsAnError ==
    /\ (results # Null /\ BadForm(calculationType, formData))
       => results.kind = "error"
    /\ (response # NoResponse /\ BadRequest(request))
       => response.status # 200

----------------------------------------------------------------------------
(* C10 - corporate tax under the threshold reduced-rate model (France:     *)
(* 15% up to 42,500, 25% standard) taxes the part of the taxable profit up *)
(* to the threshold at the reduced rate and the part above it at the       *)
(* standard rate, like a two-band bracket evaluation; taxable profit is    *)
(* profit minus deductible expenses floored at 0.                          *)
C10_CorporateTwoBands ==
    ( /\ results.kind = "corporate"
      /\ jurisdiction = "FR"
      /\ results.grossProfit >= 0
      /\ results.businessExpenses >= 0 )
    => /\ results.taxableProfit
            = Max(0, results.grossProfit - results.businessExpenses)
       /\ results.corporateTax
            = Frac(Min(results.taxableProfit, Euro(42500)) * 15
                   + Max(0, results.taxableProfit - Euro(42500)) * 25, 100)

----------------------------------------------------------------------------
(* C11 - stamp duty is computed progressively over the stamp-duty bands;   *)
(* with the first-time-buyer band set (0-150k at 0%, 150k-300k at 2%,      *)
(* above 300k at 5%) a Malta property of 200,000 with isFirstTimeBuyer     *)
(* true has a total of 1,000.00.                                           *)

\* the progressive duty of the first-time-buyer bands on a value in units,
\* in hundredths of a unit
FirstTimeBuyerDuty(value) ==
    2 * Min(Max(value - Euro(150000), 0), Euro(150000))
    + 5 * Max(value - Euro(300000), 0)

C11_StampDutyProgressive ==
    ( /\ results.kind = "property"
      /\ results.jurisdiction = "MT"
      /\ results.isFirstTimeBuyer
      /\ results.propertyValue >= 0 )
    => /\ results.propertyTax
            = Frac(FirstTimeBuyerDuty(results.propertyValue), 100)
       /\ results.propertyValue = Euro(200000)
            => results.propertyTax = Frac(Euro(1000) * 100, 100)

----------------------------------------------------------------------------
(* C12 - in every reachable state of the calculator the rate applied by a  *)
(* VAT calculation is one of the VAT rates defined for the current         *)
(* jurisdiction; a rate the jurisdiction does not define yields an error   *)
(* instead of a computed amount.                                           *)
C12_VatRateOfJurisdiction ==
    results.kind = "vat"
    => results.vatRate \in {ParseVatRate(r) : r \in vatRates(jurisdiction)}

----------------------------------------------------------------------------
(* C13 - under the family-quotient model (France income tax) the parts are *)
(* 1 + (1 if married) + 0.5 per dependent, the brackets are evaluated on   *)
(* income / parts, and the household total is that per-part tax multiplied *)
(* by the parts, for every non-negative income and dependent count.        *)

\* the sum of the breakdown's taxable amounts, over the denominator d
TaxableSum(r, d) ==
    IF r.breakdown = <<>> THEN Frac(0, d)
    ELSE FracSumSeq([k \in 1..Len(r.breakdown) |->
                        r.breakdown[k].taxableAmount])

\* total = perPart * (p2 / 2), for fractions built over 200 and 100 * p2
IsPerPartTimesParts(total, perPart, p2) ==
    IF total.d * p2 = 2 * perPart.d THEN total.n = perPart.n
    ELSE total.n = 0 /\ perPart.n = 0

\* a French income result for a non-negative income and dependent count
FrenchHousehold ==
    /\ IncomeResult
    /\ jurisdiction = "FR"
    /\ results.grossIncome >= 0
    /\ ParseIntOr0(formData.dependents) >= 0

C13_FamilyQuotient ==
    FrenchHousehold
    => LET p2 == 2 + (IF formData.maritalStatus = "married" THEN 2 ELSE 0)
                   + ParseIntOr0(formData.dependents)
           q == Frac(2 * results.grossIncome, p2)
           taxable == TaxableSum(results, p2)
       IN  /\ results.quotientFamilial2 = p2
           \* the brackets entered cover the quotient: their taxable
           \* amounts add up to the quotient, to the euro
           /\ taxable.d = p2
           /\ q.n <= taxable.n
           /\ taxable.n <= q.n + Euro(1) * p2
           /\ \A k \in 1..Len(results.breakdown) :
                 results.breakdown[k].tax
                   = FracTimesRate(results.breakdown[k].taxableAmount,
                                   results.breakdown[k].rate)
           /\ IsPerPartTimesParts(results.totalTax,
                                  BreakdownTaxSum(results), p2)

C13_Witness ==
    /\ FrenchHousehold
    /\ formData.maritalStatus = "married"
    /\ ParseIntOr0(formData.dependents) = 2
    /\ results.grossIncome = Euro(45000)
    /\ results.quotientFamilial2 = 6
    /\ Len(results.breakdown) = 2
    /\ results.totalTax.n > 0

----------------------------------------------------------------------------
(* C14 - under the flat-allowance model (Malta income tax) the final tax   *)
(* is max(0, raw bracket tax - personal allowance - 600 if married - 300   *)
(* per dependent), so the final tax never exceeds the raw bracket tax.     *)

\* a Maltese income result for a dependent count that is a count
MalteseResult ==
    /\ IncomeResult
    /\ jurisdiction = "MT"
    /\ ParseIntOr0(formData.dependents) >= 0

----------------------------------------------------------------------------
(* C15 - the effective rate of every result is the total tax divided by    *)
(* the base amount, and 0 when the base is 0; no calculation path divides  *)
(* by zero for any input the calculator or the edge function accepts.      *)
C15_NoDivisionByZero ==
    /\ IncomeResult
       => /\ results.quotientFamilial2 # 0        \* income / parts
          /\ IsFinite(results.totalTax)
          /\ IsFinite(results.effectiveRate)
          /\ results.grossIncome = 0 => results.effectiveRate.n = 0
          /\ results.grossIncome > 0
               => results.effectiveRate
                    = FracPercentOf(results.totalTax, results.grossIncome)
    /\ EdgeIncomeResult
       => /\ response.body.annual_income.v # 0    \* tax_due / annual_income
          /\ IsFinite(response.body.effective_rate)

----------------------------------------------------------------------------
(* C16 - a request whose calculation type is not supported is answered     *)
(* with an error, never with a success: the client dispatcher returns an   *)
(* error result for a type other than income, vat, corporate and property, *)
(* the edge function an error response for a calculation_type other than   *)
(* income_tax.                                                             *)
C16_UnsupportedTypeIsAnError ==
    /\ (results # Null /\ calculationType \notin CalculationTypes)
       => results.kind = "error"
    /\ ( /\ response # NoResponse
         /\ request.method = "POST"
         /\ request.json_ok
         /\ request.annual_income.t = "number"
         /\ CalculationTypeOrDefault(request.calculation_type)
              # "income_tax" )
       => response.status # 200

----------------------------------------------------------------------------
(* C17 - two calculate calls with identical inputs return identical        *)
(* results, whenever they run and whatever calls happen in between: the    *)
(* result of the client calculator and the response body of the edge       *)
(* function depend on the request inputs only.                             *)
C17_SameInputsSameResult ==
    /\ results # Null
       => results = calculationResults(calculationType, jurisdiction,
                                       formData)
    /\ (response # NoResponse /\ request.method = "POST"
                               /\ request.annual_income.t = "number")
       => \A i \in 1..Len(served) :
             served[i].request = request
             => served[i].response = response

----------------------------------------------------------------------------
(* C18 - a calculation has no side effects: it performs no I/O and changes *)
(* nothing outside its returned result, so after any sequence of           *)
(* calculations no database row written by a calculation exists.           *)
C18_NoStoredRows == tax_calculations = 0

----------------------------------------------------------------------------
(* src/unnamed/part_006 : the jurisdictions seed *)

\* configuration.tax_brackets of the seeded jurisdictions; rate in percent
\* (0.15 is 15), "max": null is Infinity
SeedBrackets(code) ==
    IF code = "MT"
    THEN << [min |-> 0,     max |-> 9100,     rate |-> 0],
            [min |-> 9101,  max |-> 14500,    rate |-> 15],
            [min |-> 14501, max |-> 19500,    rate |-> 25],
            [min |-> 19501, max |-> 60000,    rate |-> 25],
            [min |-> 60001, max |-> Infinity, rate |-> 35] >>
    ELSE << [min |-> 0,      max |-> 10777,    rate |-> 0],
            [min |-> 10778,  max |-> 27478,    rate |-> 11],
            [min |-> 27479,  max |-> 78570,    rate |-> 30],
            [min |-> 78571,  max |-> 168994,   rate |-> 41],
            [min |-> 168995, max |-> Infinity, rate |-> 45] >>

----------------------------------------------------------------------------
(* C19 - every bracket sequence the calculators use (Malta and France in   *)
(* the client calculator, the jurisdictions seed) is contiguous and        *)
(* strictly increasing, the upper bound of a bracket being the lower bound *)
(* of the next, has exactly one unbounded bracket, the last, and has every *)
(* rate in [0, 1].                                                         *)

\* the upper bound of each bracket is the lower bound of the next
Contiguous(brackets) ==
    \A i \in 1..(Len(brackets) - 1) : brackets[i].max = brackets[i + 1].min

StrictlyIncreasing(brackets) ==
    /\ \A i \in 1..Len(brackets) : brackets[i].min < brackets[i].max
    /\ \A i \in 1..(Len(brackets) - 1) :
          brackets[i].min < brackets[i + 1].min

OneUnboundedLast(brackets) ==
    {i \in 1..Len(brackets) : brackets[i].max = Infinity} = {Len(brackets)}

\* rate / 100 is in [0, 1]
RatesInUnitInterval(brackets) ==
    \A i \in 1..Len(brackets) : brackets[i].rate \in 0..100

\* the bracket tables of a jurisdiction: the calculator's and the seed's
\* (the generic variant has none)
BracketTables(j) ==
    IF j = "MT" THEN {MaltaBrackets, SeedBrackets("MT")}
    ELSE IF j = "FR" THEN {FranceBrackets, SeedBrackets("FR")}
    ELSE {}

C19_BracketsWellFormed ==
    \A brackets \in BracketTables(jurisdiction) :
       /\ StrictlyIncreasing(brackets)
       /\ OneUnboundedLast(brackets)
       /\ RatesInUnitInterval(brackets)
       /\ Contiguous(brackets)

----------------------------------------------------------------------------
(* C20 - persona lists in localStorage are updated by unsynchronised       *)
(* read-modify-write: a selector's create, edit or delete writes back the  *)
(* copy it loaded earlier, so when it interleaves with another writer of   *)
(* the same key (saveClonedConfiguration, or a selector in another tab) a  *)
(* persona written by one of them can be missing from the stored list.     *)

\* every list a mounted selector stores is made of the selector's own
\* earlier copy (plus the persona it creates): nothing another writer put
\* into the item since that copy was loaded is carried over
C20_WritesBackItsCopy ==
    [][\A t \in Tabs :
          (selector[t].mounted
             /\ selector'[t].personas # selector[t].personas)
          => /\ storage' = Item(selector'[t].personas)
             /\ Ids(storage'.list)
                  \subseteq Ids(selector[t].personas)
                              \cup {CustomId(created + 1)}]_vars

\* a lost update: a persona that was written and never deleted is missing
\* from the stored list, while a persona written later is in it
C20_Witness ==
    /\ storage.present
    /\ clonedPersona.id \in written
    /\ clonedPersona.id \notin Ids(storage.list)
    /\ CustomId(1) \in Ids(storage.list)

----------------------------------------------------------------------------
(* C21 - the service worker writes a response to the dynamic cache only    *)
(* when it is a successful (status 200) network response, for /api/        *)
(* requests, HTML pages and other resources alike, so the cache fallback   *)
(* used when the network fails never serves a cached error response.       *)
C21_CacheHoldsOnlySuccess ==
    /\ \A url \in Urls : dynamicCache[url] \in {0, 200}
    /\ delivered.source = "cache" => delivered.status = 200

----------------------------------------------------------------------------
(* C22 - during background sync an offline action is removed from the      *)
(* queue only after its sync request completed successfully (not after a   *)
(* network failure or an error response); an action whose sync fails stays *)
(* queued and does not stop the remaining actions from being attempted in  *)
(* the same run.                                                           *)

\* the outcome of the last attempt on an action
IsLastAttempt(k) ==
    \A m \in (k + 1)..Len(attempted) :
       attempted[m].action # attempted[k].action

C22_RemovedOnlyAfterSuccess ==
    /\ \A k \in 1..Len(attempted) :
          (IsLastAttempt(k) /\ attempted[k].action \notin offlineActions)
          => attempted[k].outcome = 200
    /\ (~syncRun.active /\ attempted # <<>>)
       => \A a \in offlineActions :
             \E k \in 1..Len(attempted) : attempted[k].action = a

----------------------------------------------------------------------------
(* C23 - default personas cannot be deleted: a create, edit or delete of   *)
(* a PersonaSelector keeps every persona with isDefault = true of its list *)
(* in the list and in the stored item, and handleDeletePersona called with *)
(* the id of a default persona changes neither the list nor the item.      *)

DefaultIds(list) == {list[k].id : k \in {m \in 1..Len(list) : list[m].isDefault}}

----------------------------------------------------------------------------
(* C24 - with all INSERT policies on public.messages taken together, a     *)
(* user who is not the service role can insert a message only into a       *)
(* conversation the user owns: no stored row was inserted by a user into   *)
(* the conversation of another user.                                       *)
C24_InsertOnlyIntoOwnConversation ==
    \A k \in 1..Len(messages) :
        messages[k].by \in Users
        => conversations[messages[k].conversation_id].user_id
             = messages[k].by

----------------------------------------------------------------------------
(* C26 - in every cloner step past 'select' and in every saved clone the   *)
(* target language is one of the languages listed for the target           *)
(* jurisdiction, in whatever order the two selectors were changed.         *)
C26_LanguageOfTargetJurisdiction ==
    /\ cloningStep # "select"
       => selectedTargetLanguage
            \in getAvailableLanguages(selectedTargetJurisdiction)
    /\ \A key \in clonedItems : key[2] \in getAvailableLanguages(key[1])

----------------------------------------------------------------------------
(* C27 - whenever the cloner is in step 'complete' the cloned persona is   *)
(* stored under personas-<target jurisdiction>-<target language>, also     *)
(* when the persona prop is missing or a localStorage operation throws.    *)
C27_CompleteMeansStored ==
    cloningStep = "complete"
    => <<selectedTargetJurisdiction, selectedTargetLanguage>>
         \in clonedItems

----------------------------------------------------------------------------
(* C28 - in demo mode ('Explore Anonymously') the wizard can be completed  *)
(* by pressing Continue alone, without a name, an email or phone, or       *)
(* accepted terms: on the account and terms steps, whose inputs demo mode  *)
(* hides, the Continue button is enabled.                                  *)
C28_ContinueEnabledInDemo ==
    (showDemo /\ ~onboarded /\ currentStep \in {3, 4}) => canProceed

----------------------------------------------------------------------------
(* C29 - after every successful chat-handler request the message_count of  *)
(* the conversation equals the number of rows stored in messages for it,   *)
(* for conversations of any length.                                        *)
C29_MessageCountIsRowCount ==
    chatResponse.status = 200
    => conversations[chatResponse.conversation_id].message_count
         = Len(RowsOf(chatResponse.conversation_id))

----------------------------------------------------------------------------
(* C25 - whenever the calculator displays a result that is no error, the   *)
(* result was produced by the calculation type now selected: results is    *)
(* null, an error, or the result of the calculator of calculationType,     *)
(* which carries the fields the result view of that type reads.            *)
C25_ResultOfSelectedType ==
    (results # Null /\ results.kind # "error")
    => results.kind = calculationType

----------------------------------------------------------------------------
(* C30 - for every positive whole-euro income of a single filer without    *)
(* dependents, the Malta total of the client calculator                    *)
(* (calculateMaltaIncomeTax) equals the tax_due the edge function answers  *)
(* for the same income.                                                    *)

\* a client amount (a fraction of units) and an edge amount (a fraction of
\* a euro) are the same amount of money
SameMoney(client, edge) ==
    /\ client.d > 0
    /\ edge.d > 0
    /\ client.n * edge.d = edge.n * client.d * Scale

C30_ClientEqualsEdge ==
    ( /\ IncomeResult
      /\ jurisdiction = "MT"
      /\ results.grossIncome > 0
      /\ results.grossIncome % Scale = 0
      /\ formData.maritalStatus = "single"
      /\ ParseIntOr0(formData.dependents) = 0 )
    => SameMoney(results.totalTax,
                 EdgeIncomeTax(Num(results.grossIncome), "single",
                               now).tax_due)

====
